---- MODULE Spec2Model ----
(***************************************************************************)
(* The grading pipeline of src/utils.ts (class statistics, z-score grades, *)
(* best-six aggregate, category, ranking, facilitator statistics).         *)
(*                                                                         *)
(* Numbers.  Scores are integers.  A mean is the exact rational            *)
(* [num, den]; a standard deviation is kept as the rational under its      *)
(* square root, [num, den] standing for sqrt(num/den).  The comparisons    *)
(* the code makes on doubles are decided exactly; within the bounds used   *)
(* here a double comparison and the exact one can differ only where both   *)
(* sides are exactly equal, and those places are handled one by one        *)
(* (DiffGE, PercentageGE).                                                 *)
(***************************************************************************)
EXTENDS Integers, Sequences, FiniteSets, TLC

VARIABLES
    students,           \* StudentData[] handed to the pipeline
    subjectList,        \* the active subject list
    settings,           \* scienceBaseScore, facilitatorMapping, staffList, gradingSystemRemarks
    stats,              \* ClassStatistics of the run
    processedStudents,  \* ProcessedStudent[] of the run
    facilitatorStats,   \* FacilitatorStats[] of the run
    pc,                 \* position in the run
    statsMap,           \* calculateFacilitatorStats: the map being accumulated
    pool,               \* calculateFacilitatorStats: the computed subjects the loop draws from
    observed,           \* calculateFacilitatorStats: how often each (facilitator, subject) was fed
    gradeArgs,          \* getGradeFromZScore: the arguments of the call
    gradeOut,           \* getGradeFromZScore: the two results of the call
    scoreList,          \* calculateMean, calculateStdDev: the list of scores
    moments,            \* calculateMean, calculateStdDev: the two results
    activeDept,         \* App: the department selected
    selectedSubject,    \* ScoreEntry: the subject selected
    memoDeps,           \* App: the dependencies the two memos were last computed for
    editCount           \* App: the handlers run so far

vars == <<students, subjectList, settings, stats, processedStudents,
          facilitatorStats, pc, statsMap, pool, observed, gradeArgs, gradeOut,
          scoreList, moments, activeDept, selectedSubject, memoDeps, editCount>>

\* The state of the application around the pipeline
appVars == <<activeDept, selectedSubject, memoDeps, editCount>>

----------------------------------------------------------------------------
(* Helpers for sequences and exact arithmetic                              *)

RECURSIVE SumSeq(_)
SumSeq(s) == IF s = <<>> THEN 0 ELSE Head(s) + SumSeq(Tail(s))

Take(s, n) == SubSeq(s, 1, IF Len(s) < n THEN Len(s) ELSE n)

\* Array.prototype.sort with comparator cmp: a stable sort.  Element i goes
\* behind every element that compares before it and behind every earlier
\* element that compares equal to it.
StableSort(s, cmp(_, _)) ==
    LET n == Len(s)
        before(j, i) == \/ cmp(s[j], s[i]) < 0
                        \/ (cmp(s[j], s[i]) = 0 /\ j < i)
        place(i) == 1 + Cardinality({j \in 1..n : j # i /\ before(j, i)})
    IN  [k \in 1..n |-> s[CHOOSE i \in 1..n : place(i) = k]]

\* a/b >= c/d for a, c >= 0 and b, d > 0, by the continued-fraction
\* expansion (no product is formed, so no 32-bit overflow).
RECURSIVE RatGE(_, _, _, _)
RatGE(a, b, c, d) ==
    LET qa == a \div b
        qc == c \div d
        ra == a % b
        rc == c % d
    IN  IF qa # qc THEN qa > qc
        ELSE IF rc = 0 THEN TRUE
        ELSE IF ra = 0 THEN FALSE
        ELSE RatGE(d, rc, b, ra)

----------------------------------------------------------------------------
(* src/utils.ts: statistics                                                *)

calculateMean(values) ==
    IF Len(values) = 0 THEN [num |-> 0, den |-> 1]
    ELSE [num |-> SumSeq(values), den |-> Len(values)]

\* The deviation taken about zero instead of about the mean
calculateStdDev_AboutZero(values, mean) ==
    IF Len(values) = 0 THEN [num |-> 0, den |-> 1]
    ELSE [num |-> SumSeq([i \in 1..Len(values) |-> values[i] * values[i]]),
          den |-> Len(values)]

\* sqrt( sum (value - mean)^2 / length ), kept as the rational under the root
calculateStdDev(values, mean) ==
    IF Len(values) = 0 THEN [num |-> 0, den |-> 1]
    ELSE LET squareDiffs == [i \in 1..Len(values) |->
                                (values[i] * mean.den - mean.num)
                              * (values[i] * mean.den - mean.num)]
         IN  [num |-> SumSeq(squareDiffs),
              den |-> mean.den * mean.den * Len(values)]

\* stdDev === 0
IsZero(stdDev) == stdDev.num = 0

generateSubjectRemark(score) ==
    IF score >= 90 THEN "Outstanding mastery of subject concepts."
    ELSE IF score >= 80 THEN "Excellent performance, shows great potential."
    ELSE IF score >= 70 THEN "Very Good. Consistent effort displayed."
    ELSE IF score >= 60 THEN "Good. Capable of achieving higher grades."
    ELSE IF score >= 55 THEN "Credit. Satisfactory understanding shown."
    ELSE IF score >= 50 THEN "Pass. Needs more dedication to studies."
    ELSE IF score >= 40 THEN "Weak Pass. Remedial support recommended."
    ELSE "Critical Failure. Immediate intervention required."

\* diff >= (k / 1000) * stdDev, for diff a rational and stdDev >= 0.
\* For k >= 0 this is diff >= 0 and diff^2 >= (k/1000)^2 * stdDev^2; for
\* k < 0 it is diff >= 0 or diff^2 <= (k/1000)^2 * stdDev^2.  With a zero
\* stdDev the right-hand side is 0.
DiffGE(diff, k, stdDev) ==
    LET d2 == diff.num * diff.num * stdDev.den
        v2 == stdDev.num * diff.den * diff.den
    IN  IF IsZero(stdDev) THEN diff.num >= 0
        ELSE IF k >= 0
        THEN diff.num >= 0 /\ RatGE(d2, v2, k * k, 1000000)
        ELSE diff.num >= 0 \/ RatGE(k * k, 1000000, d2, v2)

\* remarksMap[grade] || fallback
RemarkOr(remarksMap, grade, fallback) ==
    IF grade \in DOMAIN remarksMap /\ remarksMap[grade] # ""
    THEN remarksMap[grade] ELSE fallback

GradeRecord(grade, value, remarksMap, fallback) ==
    [grade |-> grade, value |-> value,
     category |-> RemarkOr(remarksMap, grade, fallback)]

\* getGradeFromZScore without its first line, the stdDev === 0 return
getGradeFromZScore_NoZeroGuard(score, mean, stdDev, remarksMap) ==
    LET diff == [num |-> score * mean.den - mean.num, den |-> mean.den]
    IN  IF DiffGE(diff, 1645, stdDev) THEN GradeRecord("A1", 1, remarksMap, "Excellent")
        ELSE IF DiffGE(diff, 1036, stdDev) THEN GradeRecord("B2", 2, remarksMap, "Very Good")
        ELSE IF DiffGE(diff, 524, stdDev) THEN GradeRecord("B3", 3, remarksMap, "Good")
        ELSE IF DiffGE(diff, 0, stdDev) THEN GradeRecord("C4", 4, remarksMap, "Credit")
        ELSE IF DiffGE(diff, -524, stdDev) THEN GradeRecord("C5", 5, remarksMap, "Credit")
        ELSE IF DiffGE(diff, -1036, stdDev) THEN GradeRecord("C6", 6, remarksMap, "Credit")
        ELSE IF DiffGE(diff, -1645, stdDev) THEN GradeRecord("D7", 7, remarksMap, "Pass")
        ELSE IF DiffGE(diff, -2326, stdDev) THEN GradeRecord("E8", 8, remarksMap, "Pass")
        ELSE GradeRecord("F9", 9, remarksMap, "Fail")

\* getGradeFromZScore with the C4 test written diff > 0
getGradeFromZScore_StrictMean(score, mean, stdDev, remarksMap) ==
    IF IsZero(stdDev) THEN GradeRecord("C4", 4, remarksMap, "Credit")
    ELSE
    LET diff == [num |-> score * mean.den - mean.num, den |-> mean.den]
    IN  IF DiffGE(diff, 1645, stdDev) THEN GradeRecord("A1", 1, remarksMap, "Excellent")
        ELSE IF DiffGE(diff, 1036, stdDev) THEN GradeRecord("B2", 2, remarksMap, "Very Good")
        ELSE IF DiffGE(diff, 524, stdDev) THEN GradeRecord("B3", 3, remarksMap, "Good")
        ELSE IF diff.num > 0 THEN GradeRecord("C4", 4, remarksMap, "Credit")
        ELSE IF DiffGE(diff, -524, stdDev) THEN GradeRecord("C5", 5, remarksMap, "Credit")
        ELSE IF DiffGE(diff, -1036, stdDev) THEN GradeRecord("C6", 6, remarksMap, "Credit")
        ELSE IF DiffGE(diff, -1645, stdDev) THEN GradeRecord("D7", 7, remarksMap, "Pass")
        ELSE IF DiffGE(diff, -2326, stdDev) THEN GradeRecord("E8", 8, remarksMap, "Pass")
        ELSE GradeRecord("F9", 9, remarksMap, "Fail")

getGradeFromZScore(score, mean, stdDev, remarksMap) ==
    IF IsZero(stdDev) THEN GradeRecord("C4", 4, remarksMap, "Credit")
    ELSE
    LET diff == [num |-> score * mean.den - mean.num, den |-> mean.den]
    IN  IF DiffGE(diff, 1645, stdDev) THEN GradeRecord("A1", 1, remarksMap, "Excellent")
        ELSE IF DiffGE(diff, 1036, stdDev) THEN GradeRecord("B2", 2, remarksMap, "Very Good")
        ELSE IF DiffGE(diff, 524, stdDev) THEN GradeRecord("B3", 3, remarksMap, "Good")
        ELSE IF DiffGE(diff, 0, stdDev) THEN GradeRecord("C4", 4, remarksMap, "Credit")
        ELSE IF DiffGE(diff, -524, stdDev) THEN GradeRecord("C5", 5, remarksMap, "Credit")
        ELSE IF DiffGE(diff, -1036, stdDev) THEN GradeRecord("C6", 6, remarksMap, "Credit")
        ELSE IF DiffGE(diff, -1645, stdDev) THEN GradeRecord("D7", 7, remarksMap, "Pass")
        ELSE IF DiffGE(diff, -2326, stdDev) THEN GradeRecord("E8", 8, remarksMap, "Pass")
        ELSE GradeRecord("F9", 9, remarksMap, "Fail")

\* student.scores[subject] || 0
FlatScore(student, subject) ==
    IF subject \in DOMAIN student.scores THEN student.scores[subject] ELSE 0

\* student.scoreDetails?.['Science'] is truthy
HasScienceDetails(student) == "Science" \in DOMAIN student.scoreDetails

\* Math.round((rawSum / 140) * 100) for an integer rawSum >= 0: the value
\* rawSum * 5 / 7 is never half-way between two integers.
Normalize140(rawSum) == (rawSum * 100 + 70) \div 140

\* The statistics taken from the flat score alone, breakdown or not
StatsScore_FlatOnly(s, subject, scienceBaseScore) == FlatScore(s, subject)

\* The score a student contributes to a subject's statistics (lines 56-70)
StatsScore(s, subject, scienceBaseScore) ==
    IF subject = "Science" /\ HasScienceDetails(s)
    THEN LET det == s.scoreDetails["Science"]
             rawSum == det.sectionA + det.sectionB
         IN  IF scienceBaseScore = 140 THEN Normalize140(rawSum) ELSE rawSum
    ELSE FlatScore(s, subject)

calculateClassStatistics(studs, subjects, scienceBaseScore) ==
    LET names == {subjects[i] : i \in 1..Len(subjects)}
        scores(subject) ==
            [i \in 1..Len(studs) |-> StatsScore(studs[i], subject, scienceBaseScore)]
    IN  [subjectMeans |-> [sub \in names |-> calculateMean(scores(sub))],
         subjectStdDevs |-> [sub \in names |->
                                calculateStdDev(scores(sub), calculateMean(scores(sub)))]]

----------------------------------------------------------------------------
(* src/utils.ts: processStudentData                                        *)

\* The core subjects of './constants' (not among the sources): the four
\* subjects of which the best four are taken.
CORE_SUBJECTS == {"English Language", "Mathematics", "Science", "Social Studies"}

\* The score processStudentData grades and stores (lines 95-106)
ProcessScore(student, subject, scienceBaseScore) ==
    IF subject = "Science" /\ HasScienceDetails(student)
    THEN LET det == student.scoreDetails["Science"]
             rawSum == det.sectionA + det.sectionB
         IN  IF scienceBaseScore = 140 THEN Normalize140(rawSum) ELSE rawSum
    ELSE FlatScore(student, subject)

\* The map entry taken first, the roster only for a subject without one
ResolveFacilitator_MapFirst(subject, facilitatorMap, staffList) ==
    LET hits == {i \in 1..Len(staffList) : subject \in staffList[i].subjects}
    IN  IF subject \in DOMAIN facilitatorMap /\ facilitatorMap[subject] # ""
        THEN facilitatorMap[subject]
        ELSE IF hits # {}
        THEN staffList[CHOOSE i \in hits : \A j \in hits : i <= j].name
        ELSE "TBA"

\* staffList.find(...) ? staff.name : (facilitatorMap[subject] || 'TBA')
ResolveFacilitator(subject, facilitatorMap, staffList) ==
    LET hits == {i \in 1..Len(staffList) : subject \in staffList[i].subjects}
    IN  IF hits # {}
        THEN staffList[CHOOSE i \in hits : \A j \in hits : i <= j].name
        ELSE IF subject \in DOMAIN facilitatorMap /\ facilitatorMap[subject] # ""
        THEN facilitatorMap[subject]
        ELSE "TBA"

\* stdDev === 0 ? 0 : (score - mean) / stdDev.  The quotient is kept as its
\* operands; a division by a zero stdDev gives NaN or an infinity.
ZScore(score, mean, stdDev) ==
    LET diff == score * mean.den - mean.num
    IN  IF IsZero(stdDev) THEN [kind |-> "zero", num |-> 0, den |-> 1, under |-> stdDev]
        ELSE [kind |-> "quotient", num |-> diff, den |-> mean.den, under |-> stdDev]

\* One pass of the subjectList.forEach body (lines 95-126)
ComputeSubject(student, subject, st, facilitatorMap, gradingRemarks, staffList, scienceBaseScore) ==
    LET score == ProcessScore(student, subject, scienceBaseScore)
        mean == st.subjectMeans[subject]
        stdDev == st.subjectStdDevs[subject]
        g == getGradeFromZScore(score, mean, stdDev, gradingRemarks)
    IN  [subject |-> subject,
         score |-> score,
         grade |-> g.grade,
         gradeValue |-> g.value,
         remark |-> generateSubjectRemark(score),
         facilitator |-> ResolveFacilitator(subject, facilitatorMap, staffList),
         zScore |-> ZScore(score, mean, stdDev)]

\* sortFn with the tie on gradeValue decided by ascending score
sortFn_ScoreAscending(a, b) ==
    IF a.gradeValue # b.gradeValue THEN a.gradeValue - b.gradeValue
    ELSE a.score - b.score

sortFn(a, b) ==
    IF a.gradeValue # b.gradeValue THEN a.gradeValue - b.gradeValue
    ELSE b.score - a.score

SumGradeValues(subs) == SumSeq([i \in 1..Len(subs) |-> subs[i].gradeValue])

Best4Cores(computedSubjects) ==
    Take(StableSort(SelectSeq(computedSubjects,
                              LAMBDA s : s.subject \in CORE_SUBJECTS), sortFn), 4)

\* The electives cut after three instead of two
Best2Electives_Three(computedSubjects) ==
    Take(StableSort(SelectSeq(computedSubjects,
                              LAMBDA s : s.subject \notin CORE_SUBJECTS), sortFn), 3)

\* The first two electives of the list, the sort left out
Best2Electives_Unsorted(computedSubjects) ==
    Take(SelectSeq(computedSubjects, LAMBDA s : s.subject \notin CORE_SUBJECTS), 2)

Best2Electives(computedSubjects) ==
    Take(StableSort(SelectSeq(computedSubjects,
                              LAMBDA s : s.subject \notin CORE_SUBJECTS), sortFn), 2)

\* Category with the Pass bound exclusive
Category_PassExclusive(bestSixAggregate) ==
    IF bestSixAggregate <= 10 THEN "Distinction"
    ELSE IF bestSixAggregate <= 20 THEN "Merit"
    ELSE IF bestSixAggregate < 36 THEN "Pass"
    ELSE "Fail"

Category(bestSixAggregate) ==
    IF bestSixAggregate <= 10 THEN "Distinction"
    ELSE IF bestSixAggregate <= 20 THEN "Merit"
    ELSE IF bestSixAggregate <= 36 THEN "Pass"
    ELSE "Fail"

\* text.trim() === "" on the texts the inputs are drawn from: the empty
\* text and the texts of white space only
IsBlank(text) == text \in {"", " ", "  "}

\* field && field.trim() !== "" for an optional text field of a record
HasText(rec, field) == field \in DOMAIN rec /\ ~IsBlank(rec[field])

\* Array.prototype.join
RECURSIVE Join(_, _)
Join(texts, separator) ==
    IF Len(texts) = 0 THEN ""
    ELSE IF Len(texts) = 1 THEN texts[1]
    ELSE texts[1] \o separator \o Join(Tail(texts), separator)

IsWeak(s) == s.gradeValue >= 7

\* computedSubjects.filter(s => s.gradeValue >= 7)
WeakSubjects(computedSubjects) == SelectSeq(computedSubjects, IsWeak)

\* `Needs urgent improvement in: ${names}.` (lines 160-161, 168-169)
UrgentNote(weakSubjects) ==
    "Needs urgent improvement in: "
        \o Join([i \in 1..Len(weakSubjects) |-> weakSubjects[i].subject], ", ")
        \o "."

\* The comparator turned round: the highest score first
ScoreAscending_Reversed(a, b) == b.score - a.score

\* (a, b) => a.score - b.score
ScoreAscending(a, b) == a.score - b.score

\* `Lowest performance in ${sortedByScoreAsc[0]?.subject || 'N/A'}.`
LowestNote(computedSubjects) ==
    LET sortedByScoreAsc == StableSort(computedSubjects, ScoreAscending)
    IN  "Lowest performance in "
            \o (IF Len(sortedByScoreAsc) = 0 \/ sortedByScoreAsc[1].subject = ""
                THEN "N/A" ELSE sortedByScoreAsc[1].subject)
            \o "."

\* weaknessAnalysis (lines 154-172)
WeaknessAnalysis(student, computedSubjects) ==
    LET weakSubjects == WeakSubjects(computedSubjects)
    IN  IF Len(weakSubjects) > 0 THEN UrgentNote(weakSubjects)
        ELSE IF HasText(student, "finalRemark") THEN ""
        ELSE LowestNote(computedSubjects)

\* facilitatorRemarksStr (lines 174-182); subjectRemarks is kept as the
\* sequence of its (sub, text) entries in the order Object.entries gives
FacilitatorRemarksStr(student) ==
    LET entries == IF "subjectRemarks" \in DOMAIN student
                   THEN student.subjectRemarks ELSE <<>>
        HasNote(e) == ~IsBlank(e.text)
        kept == SelectSeq(entries, HasNote)
        facilitatorRemarksList == [i \in 1..Len(kept) |-> kept[i].sub \o ": " \o kept[i].text]
    IN  IF Len(facilitatorRemarksList) > 0
        THEN " [Facilitator Notes: " \o Join(facilitatorRemarksList, "; ") \o "]"
        ELSE ""

\* generatedPerformanceSummary (line 183)
GeneratedPerformanceSummary(category, bestSixAggregate) ==
    "Overall performance is " \o category \o ". "
        \o (IF bestSixAggregate <= 15 THEN "Keep up the excellent work!"
            ELSE "More effort required to improve aggregate.")

\* student.overallRemark || generatedPerformanceSummary (line 184)
ClassTeacherRemark(student, category, bestSixAggregate) ==
    IF "overallRemark" \in DOMAIN student /\ student.overallRemark # ""
    THEN student.overallRemark
    ELSE GeneratedPerformanceSummary(category, bestSixAggregate)

\* combinedOverallRemark (lines 153-186)
CombinedOverallRemark(student, computedSubjects, category, bestSixAggregate) ==
    IF HasText(student, "finalRemark") THEN student.finalRemark
    ELSE WeaknessAnalysis(student, computedSubjects)
            \o FacilitatorRemarksStr(student)
            \o "\n\n"
            \o ClassTeacherRemark(student, category, bestSixAggregate)

\* The students.map callback (lines 90-210); rank is 0 until the sort
\* The student with the sort applied to computedSubjects itself instead of
\* the filtered copies
ProcessStudent_SortedInPlace(student, st, facilitatorMap, subjects, gradingRemarks, staffList, scienceBaseScore) ==
    LET computedSubjects ==
            StableSort([i \in 1..Len(subjects) |->
                           ComputeSubject(student, subjects[i], st, facilitatorMap,
                                          gradingRemarks, staffList, scienceBaseScore)],
                       sortFn)
        best4Cores == Best4Cores(computedSubjects)
        best2Electives == Best2Electives(computedSubjects)
        bestSixAggregate == SumGradeValues(best4Cores) + SumGradeValues(best2Electives)
    IN  [id |-> student.id,
         subjects |-> computedSubjects,
         totalScore |-> SumSeq([i \in 1..Len(computedSubjects) |-> computedSubjects[i].score]),
         bestSixAggregate |-> bestSixAggregate,
         bestCoreSubjects |-> best4Cores,
         bestElectiveSubjects |-> best2Electives,
         overallRemark |-> CombinedOverallRemark(student, computedSubjects,
                                                 Category(bestSixAggregate),
                                                 bestSixAggregate),
         weaknessAnalysis |-> WeaknessAnalysis(student, computedSubjects),
         category |-> Category(bestSixAggregate),
         rank |-> 0]

ProcessStudent(student, st, facilitatorMap, subjects, gradingRemarks, staffList, scienceBaseScore) ==
    LET computedSubjects ==
            [i \in 1..Len(subjects) |->
                ComputeSubject(student, subjects[i], st, facilitatorMap,
                               gradingRemarks, staffList, scienceBaseScore)]
        best4Cores == Best4Cores(computedSubjects)
        best2Electives == Best2Electives(computedSubjects)
        bestSixAggregate == SumGradeValues(best4Cores) + SumGradeValues(best2Electives)
    IN  [id |-> student.id,
         subjects |-> computedSubjects,
         totalScore |-> SumSeq([i \in 1..Len(computedSubjects) |-> computedSubjects[i].score]),
         bestSixAggregate |-> bestSixAggregate,
         bestCoreSubjects |-> best4Cores,
         bestElectiveSubjects |-> best2Electives,
         overallRemark |-> CombinedOverallRemark(student, computedSubjects,
                                                 Category(bestSixAggregate),
                                                 bestSixAggregate),
         weaknessAnalysis |-> WeaknessAnalysis(student, computedSubjects),
         category |-> Category(bestSixAggregate),
         rank |-> 0]

\* The comparator with the tie on the aggregate decided by ascending total
RankCompare_TotalAscending(a, b) ==
    IF a.bestSixAggregate # b.bestSixAggregate
    THEN a.bestSixAggregate - b.bestSixAggregate
    ELSE a.totalScore - b.totalScore

\* The comparator of processed.sort (lines 212-215)
RankCompare(a, b) ==
    IF a.bestSixAggregate # b.bestSixAggregate
    THEN a.bestSixAggregate - b.bestSixAggregate
    ELSE b.totalScore - a.totalScore

\* processed.forEach((p, index) => p.rank = index + 1)
AssignRanks(processed) ==
    [i \in 1..Len(processed) |-> [processed[i] EXCEPT !.rank = i]]

\* The cohort sorted from its last student backwards, so that students
\* equal under the comparator come out in reverse input order
processStudentData_FromTheEnd(st, studs, facilitatorMap, subjects, gradingRemarks, staffList, scienceBaseScore) ==
    LET n == Len(studs)
        processed ==
            [i \in 1..n |->
                ProcessStudent(studs[n + 1 - i], st, facilitatorMap, subjects,
                               gradingRemarks, staffList, scienceBaseScore)]
    IN  AssignRanks(StableSort(processed, RankCompare))

processStudentData(st, studs, facilitatorMap, subjects, gradingRemarks, staffList, scienceBaseScore) ==
    LET processed ==
            [i \in 1..Len(studs) |->
                ProcessStudent(studs[i], st, facilitatorMap, subjects,
                               gradingRemarks, staffList, scienceBaseScore)]
    IN  AssignRanks(StableSort(processed, RankCompare))

----------------------------------------------------------------------------
(* src/utils.ts: calculateFacilitatorStats                                 *)

\* The nine bands, in the order of their values 1..9
Grades == <<"A1", "B2", "B3", "C4", "C5", "C6", "D7", "E8", "F9">>

GradeSet == {Grades[i] : i \in 1..Len(Grades)}

\* `${sub.facilitator}||${sub.subject}`
StatKey(sub) == sub.facilitator \o "||" \o sub.subject

\* The record a key is created with (lines 231-240)
NewStat(sub) ==
    [facilitatorName |-> sub.facilitator,
     subject |-> sub.subject,
     studentCount |-> 0,
     gradeCounts |-> [g \in GradeSet |-> 0],
     totalGradeValue |-> 0,
     performancePercentage |-> 0,
     averageGradeValue |-> [num |-> 0, den |-> 1],
     performanceGrade |-> ""]

\* The loop body with studentCount set when the record is created and not
\* counted up afterwards
AccumulateSub_CountOnCreate(map, sub) ==
    LET key == StatKey(sub)
        m == IF \E i \in 1..Len(map) : map[i].key = key THEN map
             ELSE Append(map, [key |-> key,
                               stat |-> [NewStat(sub) EXCEPT !.studentCount = 1]])
        at == CHOOSE i \in 1..Len(m) : m[i].key = key
    IN  [m EXCEPT ![at].stat.gradeCounts[sub.grade] = @ + 1,
                  ![at].stat.totalGradeValue = @ + sub.gradeValue]

\* The body of student.subjects.forEach (lines 229-246).  The map is kept
\* as the sequence of its (key, record) pairs in insertion order, the order
\* Object.values returns them in.
AccumulateSub(map, sub) ==
    LET key == StatKey(sub)
        m == IF \E i \in 1..Len(map) : map[i].key = key THEN map
             ELSE Append(map, [key |-> key, stat |-> NewStat(sub)])
        at == CHOOSE i \in 1..Len(m) : m[i].key = key
    IN  [m EXCEPT ![at].stat.studentCount = @ + 1,
                  ![at].stat.gradeCounts[sub.grade] = @ + 1,
                  ![at].stat.totalGradeValue = @ + sub.gradeValue]

\* percentage >= threshold on doubles, where percentage is
\* (1 - total / expected) * 100 for expected > 0.  Away from an exact tie
\* the double comparison is the exact one.  At an exact tie total/expected
\* is the double nearest to 1 - threshold/100, and the subtraction and the
\* product give 80, 70, 60, 50, 44.99999999999999, 40, 35 and
\* 30.000000000000004: every tie passes its threshold but the one at 45.
PercentageGE(total, expected, threshold) ==
    IF expected = 0 THEN 0 >= threshold
    ELSE IF 100 * (expected - total) # threshold * expected
         THEN 100 * (expected - total) > threshold * expected
         ELSE threshold # 45

\* The percentage taken against eight bands per student instead of nine
ToFixed2_EightBands(total, expected) ==
    IF expected = 0 THEN 0
    ELSE (20000 * (8 * expected - 9 * total) + 8 * expected) \div (16 * expected)

\* parseFloat(percentage.toFixed(2)), in hundredths.  For expected below
\* 9 * 32 the exact value is never half-way between two hundredths.
ToFixed2(total, expected) ==
    IF expected = 0 THEN 0
    ELSE (20000 * (expected - total) + expected) \div (2 * expected)

PerformanceGrade(total, expected) ==
    IF PercentageGE(total, expected, 80) THEN "A1"
    ELSE IF PercentageGE(total, expected, 70) THEN "B2"
    ELSE IF PercentageGE(total, expected, 60) THEN "B3"
    ELSE IF PercentageGE(total, expected, 50) THEN "C4"
    ELSE IF PercentageGE(total, expected, 45) THEN "C5"
    ELSE IF PercentageGE(total, expected, 40) THEN "C6"
    ELSE IF PercentageGE(total, expected, 35) THEN "D7"
    ELSE IF PercentageGE(total, expected, 30) THEN "E8"
    ELSE "F9"

\* The Object.values(statsMap).map callback (lines 250-272)
FinalizeStat(stat) ==
    LET totalExpectedValue == stat.studentCount * 9
    IN  [stat EXCEPT
           !.averageGradeValue =
               IF stat.studentCount > 0
               THEN [num |-> stat.totalGradeValue, den |-> stat.studentCount]
               ELSE [num |-> 0, den |-> 1],
           !.performancePercentage = ToFixed2(stat.totalGradeValue, totalExpectedValue),
           !.performanceGrade = PerformanceGrade(stat.totalGradeValue, totalExpectedValue)]

\* (a, b) => b.performancePercentage - a.performancePercentage
PerformanceCompare(a, b) == b.performancePercentage - a.performancePercentage

\* Lines 250-273: finalize every record, then sort by percentage, descending
FinalizeStats(map) ==
    StableSort([i \in 1..Len(map) |-> FinalizeStat(map[i].stat)], PerformanceCompare)

RECURSIVE AccumulateAll(_, _)
AccumulateAll(map, subs) ==
    IF subs = <<>> THEN map
    ELSE AccumulateAll(AccumulateSub(map, Head(subs)), Tail(subs))

RECURSIVE AccumulateStudents(_, _)
AccumulateStudents(map, processed) ==
    IF processed = <<>> THEN map
    ELSE AccumulateStudents(AccumulateAll(map, Head(processed).subjects), Tail(processed))

calculateFacilitatorStats(processed) ==
    FinalizeStats(AccumulateStudents(<<>>, processed))

----------------------------------------------------------------------------
(* The inputs one run of the pipeline is checked on                        *)

\* Cohort size of the runs over the long subject lists; the short lists
\* are run on every cohort of 0..MaxStudents students.
MaxStudents == 3

\* A subject list of more entries than this is a long list.
ShortLen == 3

EmptyMap == [x \in {} |-> 0]

\* The i-th student has no entry in scores for a subject of this column
IsAbsent(column, i) == column = "absent1" /\ i = 1

\* The score of the i-th student in a subject whose scores follow `column`
ColumnScore(column, i) ==
    CASE column = "flat" -> 70
      [] column = "desc" -> 120 - 30 * i
      [] column = "low1" -> IF i = 1 THEN 40 ELSE 80
      [] column = "asc" -> 10 + 20 * i
      [] column = "absent1" -> 50

MainColumns == {"flat", "desc", "low1"}

AllColumns == MainColumns \cup {"asc", "absent1"}

\* Science: nobody has a breakdown; everybody has one (entered at base 100);
\* only the first student has one (entered at base 140, flat score 57).
ScienceColumns == {"none", "details", "mixed"}

ScienceHasDetails(sci, i) == sci = "details" \/ (sci = "mixed" /\ i = 1)

ScienceDetails(sci, i) ==
    IF sci = "details"
    THEN [sectionA |-> 20 + 10 * i, sectionB |-> 30 + 20 * i, total |-> 50 + 30 * i]
    ELSE [sectionA |-> 30, sectionB |-> 50, total |-> 57]

ScienceFlat(sci, i) ==
    IF sci = "none" THEN 70
    ELSE IF sci = "details" THEN 50 + 30 * i
    ELSE 57

SubjectLists ==
    { <<>>,
      <<"Mathematics">>,
      <<"French", "Science">>,
      <<"Science", "French", "Mathematics">>,
      <<"Computing", "French", "Career Technology">>,
      <<"English Language", "Mathematics", "Science", "Social Studies",
        "Computing", "French", "Career Technology", "Science">> }

Names(list) == {list[i] : i \in 1..Len(list)}

InputStudent(i, list, cols, sci) ==
    LET plain == Names(list) \ {"Science"}
        present == {s \in plain : ~IsAbsent(cols[s], i)}
                   \cup (Names(list) \cap {"Science"})
    IN  [id |-> i,
         scores |-> [s \in present |->
                        IF s = "Science" THEN ScienceFlat(sci, i)
                        ELSE ColumnScore(cols[s], i)],
         scoreDetails |->
             IF "Science" \in Names(list) /\ ScienceHasDetails(sci, i)
             THEN [s \in {"Science"} |-> ScienceDetails(sci, i)]
             ELSE EmptyMap]

\* settings.facilitatorMapping: French has an empty entry, Computing and
\* Career Technology have none
FacilitatorMapping ==
    [s \in {"Mathematics", "English Language", "Science", "Social Studies", "French"} |->
        CASE s = "Mathematics" -> "SIR JOSHUA"
          [] s = "English Language" -> "MADAM ABIGAIL"
          [] s = "Science" -> "SIR ISAAC"
          [] s = "Social Studies" -> "SIR SAMMY"
          [] s = "French" -> ""]

\* settings.staffList
StaffList ==
    << [name |-> "MADAM RUTH", subjects |-> {"Science", "Computing"}],
       [name |-> "SIR MICHAEL", subjects |-> {"Computing"}] >>

InputSettings(base) ==
    [scienceBaseScore |-> base,
     facilitatorMapping |-> FacilitatorMapping,
     staffList |-> StaffList,
     gradingSystemRemarks |-> EmptyMap]

NoStats == [subjectMeans |-> EmptyMap, subjectStdDevs |-> EmptyMap]

\* The variables of the two single-function specifications, at rest
LoopIdle ==
    /\ statsMap = <<>>
    /\ pool = [entries |-> {}, max |-> 0]
    /\ observed = EmptyMap

GradeIdle ==
    /\ gradeArgs = <<>>
    /\ gradeOut = <<>>

MomentsIdle ==
    /\ scoreList = <<>>
    /\ moments = <<>>

\* The application around the pipeline, not modelled in the runs of one call
AppIdle ==
    /\ activeDept = "Junior High School"
    /\ selectedSubject = ""
    /\ memoDeps = <<>>
    /\ editCount = 0

Init ==
    \E list \in SubjectLists, base \in {100, 140} :
    \E n \in (IF Len(list) <= ShortLen THEN 0..MaxStudents ELSE {MaxStudents}) :
    \E cols \in [Names(list) \ {"Science"} ->
                    IF Len(list) <= ShortLen THEN AllColumns ELSE MainColumns] :
    \E sci \in (IF "Science" \in Names(list) THEN ScienceColumns ELSE {"none"}) :
        /\ students = [i \in 1..n |-> InputStudent(i, list, cols, sci)]
        /\ subjectList = list
        /\ settings = InputSettings(base)
        /\ stats = NoStats
        /\ processedStudents = <<>>
        /\ facilitatorStats = <<>>
        /\ pc = "run"
        /\ LoopIdle
        /\ GradeIdle
        /\ MomentsIdle
        /\ AppIdle

\* The useMemo callback of App (src/App.tsx lines 157-163): the three
\* stages, each on the result of the one before
RunPipeline ==
    /\ pc = "run"
    /\ \E s \in {calculateClassStatistics(students, subjectList, settings.scienceBaseScore)} :
       \E processed \in {processStudentData(s, students, settings.facilitatorMapping,
                                            subjectList, settings.gradingSystemRemarks,
                                            settings.staffList, settings.scienceBaseScore)} :
           /\ stats' = s
           /\ processedStudents' = processed
           /\ facilitatorStats' = calculateFacilitatorStats(processed)
    /\ pc' = "done"
    /\ UNCHANGED <<students, subjectList, settings, statsMap, pool, observed,
                   gradeArgs, gradeOut, scoreList, moments, appVars>>

Next == RunPipeline

Spec == Init /\ [][Next]_vars

----------------------------------------------------------------------------
(* Claims on processStudentData and calculateClassStatistics               *)

Done == pc = "done"

IsCore(s) == s.subject \in CORE_SUBJECTS

IsElective(s) == s.subject \notin CORE_SUBJECTS

Min(a, b) == IF a < b THEN a ELSE b

\* The input record of a processed student
InputOf(p) == students[CHOOSE k \in 1..Len(students) : students[k].id = p.id]

(* C1: the list processStudentData returns is ordered by ascending          *)
(* bestSixAggregate and, among equal aggregates, by descending totalScore;  *)
(* it has one entry per input student and the ranks are 1..N in list order. *)
C1_RankingOrdered ==
    Done =>
        /\ Len(processedStudents) = Len(students)
        /\ \A i \in 1..Len(processedStudents) : processedStudents[i].rank = i
        /\ \A i \in 1..(Len(processedStudents) - 1) :
              LET a == processedStudents[i]
                  b == processedStudents[i + 1]
              IN  /\ a.bestSixAggregate <= b.bestSixAggregate
                  /\ a.bestSixAggregate = b.bestSixAggregate
                        => a.totalScore >= b.totalScore

\* A run whose sort moved a student forward, with a tie in the aggregate
\* that the total score decides
C1_Witness ==
    /\ Done
    /\ Len(processedStudents) = MaxStudents
    /\ \E i \in 1..(Len(processedStudents) - 1) :
          processedStudents[i].id > processedStudents[i + 1].id
    /\ \E i \in 1..(Len(processedStudents) - 1) :
          /\ processedStudents[i].bestSixAggregate = processedStudents[i + 1].bestSixAggregate
          /\ processedStudents[i].totalScore > processedStudents[i + 1].totalScore

\* How often record r occurs in sequence s
Count(s, r) == Cardinality({i \in 1..Len(s) : s[i] = r})

\* r comes strictly before s in the order: ascending gradeValue, then
\* descending score
Better(r, s) ==
    \/ r.gradeValue < s.gradeValue
    \/ (r.gradeValue = s.gradeValue /\ r.score > s.score)

\* best holds the first `want` entries of `part` in that order: as many as
\* wanted or all there are, in order, each taken from part no more often
\* than it occurs there, and nothing left out that is better than one taken
IsBestOf(best, part, want) ==
    /\ Len(best) = Min(want, Len(part))
    /\ \A i \in 1..(Len(best) - 1) : ~Better(best[i + 1], best[i])
    /\ \A i \in 1..Len(best) : Count(best, best[i]) <= Count(part, best[i])
    /\ \A i \in 1..Len(part) :
          Count(best, part[i]) < Count(part, part[i])
             => \A j \in 1..Len(best) : ~Better(part[i], best[j])

(* C2: for every student bestCoreSubjects is the best min(4, #core) core    *)
(* subjects and bestElectiveSubjects the best min(2, #elective) electives   *)
(* under ascending gradeValue then descending score, nothing is added when  *)
(* a partition is short, and bestSixAggregate is the sum of the gradeValues *)
(* of exactly those subjects.                                               *)
C2_BestSix ==
    Done =>
        \A k \in 1..Len(processedStudents) :
            LET p == processedStudents[k]
            IN  /\ IsBestOf(p.bestCoreSubjects, SelectSeq(p.subjects, IsCore), 4)
                /\ IsBestOf(p.bestElectiveSubjects, SelectSeq(p.subjects, IsElective), 2)
                /\ p.bestSixAggregate =
                      SumGradeValues(p.bestCoreSubjects)
                    + SumGradeValues(p.bestElectiveSubjects)

\* A student with more than four core and more than two elective entries,
\* where a core subject is left out only because of its lower score and an
\* elective because of its worse grade
C2_Witness ==
    /\ Done
    /\ \E k \in 1..Len(processedStudents) :
          LET p == processedStudents[k]
              cores == SelectSeq(p.subjects, IsCore)
              electives == SelectSeq(p.subjects, IsElective)
          IN  /\ Len(cores) > 4
              /\ Len(electives) > 2
              /\ \E i \in 1..Len(cores), j \in 1..Len(p.bestCoreSubjects) :
                    /\ Count(p.bestCoreSubjects, cores[i]) = 0
                    /\ cores[i].gradeValue = p.bestCoreSubjects[j].gradeValue
                    /\ cores[i].score < p.bestCoreSubjects[j].score
              /\ \E i \in 1..Len(electives) :
                    /\ Count(p.bestElectiveSubjects, electives[i]) = 0
                    /\ electives[i].gradeValue > p.bestElectiveSubjects[2].gradeValue

\* The reorderings of a subject list the pipeline is run again on: every
\* permutation of a short list; of a long list the reversal, the rotation
\* by one and every exchange of two neighbours.
Reorderings(list) ==
    LET n == Len(list)
        swap(k) == [i \in 1..n |-> IF i = k THEN list[k + 1]
                                   ELSE IF i = k + 1 THEN list[k] ELSE list[i]]
    IN  IF n <= ShortLen
        THEN {[i \in 1..n |-> list[f[i]]] :
                 f \in {g \in [1..n -> 1..n] : \A i, j \in 1..n : g[i] = g[j] => i = j}}
        ELSE {[i \in 1..n |-> list[n + 1 - i]], [i \in 1..n |-> list[(i % n) + 1]]}
             \cup {swap(k) : k \in 1..(n - 1)}

\* The two stages of the run on another subject list
StatsOn(list) == calculateClassStatistics(students, list, settings.scienceBaseScore)

ProcessOn(st, list) ==
    processStudentData(st, students, settings.facilitatorMapping, list,
                       settings.gradingSystemRemarks, settings.staffList,
                       settings.scienceBaseScore)

(* C3: on a reordered subject list calculateClassStatistics followed by     *)
(* processStudentData gives every student the bestSixAggregate, the         *)
(* totalScore and the category of the run on the original list.             *)
C3_OrderInvariant ==
    Done =>
        \A list \in Reorderings(subjectList) :
        \A st \in {StatsOn(list)} :
        \A other \in {ProcessOn(st, list)} :
            /\ Len(other) = Len(processedStudents)
            /\ \A k \in 1..Len(processedStudents) :
                  \E m \in 1..Len(other) :
                      /\ other[m].id = processedStudents[k].id
                      /\ other[m].bestSixAggregate = processedStudents[k].bestSixAggregate
                      /\ other[m].totalScore = processedStudents[k].totalScore
                      /\ other[m].category = processedStudents[k].category

\* A run in which a reordering changes which electives are the selected
\* ones
C3_Witness ==
    /\ Done
    /\ \E list \in Reorderings(subjectList) :
       \E st \in {StatsOn(list)} :
       \E other \in {ProcessOn(st, list)} :
       \E k \in 1..Len(processedStudents), m \in 1..Len(other) :
          /\ other[m].id = processedStudents[k].id
          /\ {other[m].bestElectiveSubjects[i].subject :
                 i \in 1..Len(other[m].bestElectiveSubjects)}
             # {processedStudents[k].bestElectiveSubjects[i].subject :
                 i \in 1..Len(processedStudents[k].bestElectiveSubjects)}

\* The scores of the cohort in the subject at place i of the list, as the
\* processed students hold them
ScoresAt(i) == {processedStudents[k].subjects[i].score : k \in 1..Len(processedStudents)}

(* C5: in a subject whose standard deviation is 0, as it is whenever all    *)
(* students have the same contributing score (a cohort of one included),    *)
(* every student gets grade C4 with gradeValue 4, and the zScore is the     *)
(* literal 0, not a quotient by the standard deviation.                     *)
C5_ZeroDeviation ==
    Done =>
        \A k \in 1..Len(processedStudents), i \in 1..Len(subjectList) :
            LET sub == processedStudents[k].subjects[i]
            IN  (IsZero(stats.subjectStdDevs[subjectList[i]]) \/ Cardinality(ScoresAt(i)) = 1)
                    => /\ sub.grade = "C4"
                       /\ sub.gradeValue = 4
                       /\ sub.zScore.kind = "zero"
                       /\ sub.zScore.num = 0

\* A cohort of several students with a subject of zero deviation, graded
\* C4 on a score above 0, next to a subject that is graded by deviation
C5_Witness ==
    /\ Done
    /\ Len(processedStudents) > 1
    /\ \E i, j \in 1..Len(subjectList) :
          /\ IsZero(stats.subjectStdDevs[subjectList[i]])
          /\ processedStudents[1].subjects[i].grade = "C4"
          /\ processedStudents[1].subjects[i].score > 0
          /\ ~IsZero(stats.subjectStdDevs[subjectList[j]])
          /\ processedStudents[1].subjects[j].zScore.kind = "quotient"

(* C6: the category of a processed student is decided by bestSixAggregate   *)
(* alone: Distinction iff <= 10, Merit iff 11..20, Pass iff 21..36, Fail    *)
(* iff > 36; no other category (such as "Average") is returned.             *)
C6_Category ==
    Done =>
        \A k \in 1..Len(processedStudents) :
            LET p == processedStudents[k]
                a == p.bestSixAggregate
            IN  /\ p.category \in {"Distinction", "Merit", "Pass", "Fail"}
                /\ p.category = "Distinction" <=> a <= 10
                /\ p.category = "Merit" <=> (11 <= a /\ a <= 20)
                /\ p.category = "Pass" <=> (21 <= a /\ a <= 36)
                /\ p.category = "Fail" <=> a > 36

\* A run with a student in Fail on the lowest aggregate that fails, 37,
\* and students in two other categories
C6_Witness ==
    /\ Done
    /\ \E k \in 1..Len(processedStudents) :
          /\ processedStudents[k].bestSixAggregate = 37
          /\ processedStudents[k].category = "Fail"
    /\ \E k \in 1..Len(processedStudents) : processedStudents[k].category = "Pass"
    /\ \E k \in 1..Len(processedStudents) : processedStudents[k].category = "Merit"

\* r is x rounded to the nearest integer, halves up, for x = num / den
IsRounded(r, num, den) == 2 * den * r - den <= 2 * num /\ 2 * num < 2 * den * r + den

\* The contributing score as the specification states it
SpecifiedScore(student, subject, base, score) ==
    IF subject = "Science" /\ "Science" \in DOMAIN student.scoreDetails
    THEN LET raw == student.scoreDetails["Science"].sectionA
                  + student.scoreDetails["Science"].sectionB
         IN  IF base = 140 THEN IsRounded(score, raw * 100, 140) ELSE score = raw
    ELSE IF subject \in DOMAIN student.scores THEN score = student.scores[subject]
    ELSE score = 0

(* C7: for every student and subject, at base 100 and at base 140, the      *)
(* score calculateClassStatistics takes into the mean and the deviation is  *)
(* the score processStudentData stores in ComputedSubject.score, and the    *)
(* totalScore is the sum of these; it is round(sectionA + sectionB) at base *)
(* 100 and round((sectionA + sectionB) / 140 * 100) at base 140 for Science *)
(* with a breakdown, else the flat score, 0 when absent.                    *)
C7_SameScore ==
    Done =>
        \A k \in 1..Len(processedStudents) :
            LET p == processedStudents[k]
                contributed ==
                    [i \in 1..Len(subjectList) |->
                        StatsScore(InputOf(p), subjectList[i], settings.scienceBaseScore)]
            IN  /\ Len(p.subjects) = Len(subjectList)
                /\ \A i \in 1..Len(subjectList) :
                      /\ p.subjects[i].score = contributed[i]
                      /\ SpecifiedScore(InputOf(p), subjectList[i],
                                        settings.scienceBaseScore, p.subjects[i].score)
                /\ p.totalScore = SumSeq(contributed)

\* The breakdown 30 + 50 at base 140, scored 57, beside a student without
\* a breakdown and a subject in which a score is absent
C7_Witness ==
    /\ Done
    /\ settings.scienceBaseScore = 140
    /\ \E k, m \in 1..Len(processedStudents), i, j \in 1..Len(subjectList) :
          /\ subjectList[i] = "Science"
          /\ "Science" \in DOMAIN InputOf(processedStudents[k]).scoreDetails
          /\ InputOf(processedStudents[k]).scoreDetails["Science"].sectionA = 30
          /\ InputOf(processedStudents[k]).scoreDetails["Science"].sectionB = 50
          /\ processedStudents[k].subjects[i].score = 57
          /\ "Science" \notin DOMAIN InputOf(processedStudents[m]).scoreDetails
          /\ subjectList[j] \notin DOMAIN InputOf(processedStudents[k]).scores
          /\ processedStudents[k].subjects[j].score = 0

----------------------------------------------------------------------------
(* getGradeFromZScore on its own: two scores graded against one mean and    *)
(* one standard deviation                                                  *)

\* The scores graded are 0..MaxProbeScore
MaxProbeScore == 6

\* The means: the halves and the whole numbers of the score range
ProbeMeans ==
    {[num |-> n, den |-> d] : n \in 0..(2 * MaxProbeScore), d \in {1, 2}}

\* The standard deviations, as the number under the root: 0, 1/2, 1,
\* sqrt(2) and 3
ProbeStdDevs ==
    {[num |-> 0, den |-> 1], [num |-> 1, den |-> 4], [num |-> 1, den |-> 1],
     [num |-> 2, den |-> 1], [num |-> 9, den |-> 1]}

PipelineIdle ==
    /\ students = <<>>
    /\ subjectList = <<>>
    /\ settings = InputSettings(100)
    /\ stats = NoStats
    /\ processedStudents = <<>>

InitGrade ==
    \E s1, s2 \in 0..MaxProbeScore, m \in ProbeMeans, sd \in ProbeStdDevs :
        /\ s1 >= s2
        /\ m.num <= m.den * MaxProbeScore
        /\ gradeArgs = [s1 |-> s1, s2 |-> s2, mean |-> m, stdDev |-> sd]
        /\ gradeOut = <<>>
        /\ pc = "call"
        /\ facilitatorStats = <<>>
        /\ LoopIdle
        /\ PipelineIdle
        /\ MomentsIdle
        /\ AppIdle

\* The two calls getGradeFromZScore(s1, mean, stdDev, {}) and
\* getGradeFromZScore(s2, mean, stdDev, {})
CallGrade ==
    /\ pc = "call"
    /\ gradeOut' = << getGradeFromZScore(gradeArgs.s1, gradeArgs.mean,
                                         gradeArgs.stdDev, EmptyMap),
                      getGradeFromZScore(gradeArgs.s2, gradeArgs.mean,
                                         gradeArgs.stdDev, EmptyMap) >>
    /\ pc' = "called"
    /\ UNCHANGED <<students, subjectList, settings, stats, processedStudents,
                   facilitatorStats, statsMap, pool, observed, gradeArgs,
                   scoreList, moments, appVars>>

NextGrade == CallGrade

SpecGrade == InitGrade /\ [][NextGrade]_vars

(* C4: for a mean and a stdDev > 0, of two scores s1 >= s2 the gradeValue   *)
(* of s1 is <= the gradeValue of s2, every gradeValue is in 1..9, and a     *)
(* gradeValue is <= 4 exactly when the score is >= the mean.                *)
C4_Monotone ==
    (pc = "called" /\ ~IsZero(gradeArgs.stdDev)) =>
        /\ gradeOut[1].value <= gradeOut[2].value
        /\ gradeOut[1].value \in 1..9
        /\ gradeOut[2].value \in 1..9
        /\ gradeOut[1].value <= 4
              <=> gradeArgs.s1 * gradeArgs.mean.den >= gradeArgs.mean.num
        /\ gradeOut[2].value <= 4
              <=> gradeArgs.s2 * gradeArgs.mean.den >= gradeArgs.mean.num

\* A call pair that grades one score A1 and the other F9 against a mean
\* that is not a whole number
C4_Witness ==
    /\ pc = "called"
    /\ ~IsZero(gradeArgs.stdDev)
    /\ gradeArgs.mean.den = 2
    /\ gradeArgs.mean.num % 2 = 1
    /\ gradeOut[1].value = 1
    /\ gradeOut[2].value = 9

----------------------------------------------------------------------------
(* calculateFacilitatorStats on its own: the loop fed one computed subject  *)
(* at a time, then the final map and sort                                   *)

\* Computed subjects fed from the pool of several names and of all grades
MaxEntries == 3

\* Computed subjects fed from the pool of one facilitator and subject
MaxBulkEntries == 20

\* What the loop reads of a computed subject
FedSubject(facilitator, subject, value) ==
    [facilitator |-> facilitator, subject |-> subject,
     grade |-> Grades[value], gradeValue |-> value]

\* Two facilitators and two subjects, one of each with "||" in its name
NamesPool ==
    [entries |-> {FedSubject(f, s, v) : f \in {"SIR ISAAC", "SIR ISAAC||ICT"},
                                        s \in {"Lab", "ICT||Lab"},
                                        v \in {1, 9}},
     max |-> MaxEntries]

\* One facilitator and subject, every grade
GradesPool ==
    [entries |-> {FedSubject("TBA", "Mathematics", v) : v \in 1..9},
     max |-> MaxEntries]

\* One facilitator and subject, the grades C4 and C5, a class of students
BulkPool ==
    [entries |-> {FedSubject("TBA", "Mathematics", v) : v \in {4, 5}},
     max |-> MaxBulkEntries]

InitFacilitator ==
    /\ pool \in {NamesPool, GradesPool, BulkPool}
    /\ statsMap = <<>>
    /\ observed = EmptyMap
    /\ facilitatorStats = <<>>
    /\ pc = "loop"
    /\ PipelineIdle
    /\ GradeIdle
    /\ MomentsIdle
    /\ AppIdle

\* The computed subjects fed so far
FedCount == SumSeq([i \in 1..Len(statsMap) |-> statsMap[i].stat.studentCount])

\* One pass of the loop body (lines 228-247) on the next computed subject
AccumulateEntry(sub) ==
    /\ pc = "loop"
    /\ FedCount < pool.max
    /\ statsMap' = AccumulateSub(statsMap, sub)
    /\ observed' =
          LET pair == <<sub.facilitator, sub.subject>>
          IN  [q \in DOMAIN observed \cup {pair} |->
                  IF q = pair
                  THEN (IF pair \in DOMAIN observed THEN observed[pair] + 1 ELSE 1)
                  ELSE observed[q]]
    /\ UNCHANGED <<students, subjectList, settings, stats, processedStudents,
                   facilitatorStats, pc, pool, gradeArgs, gradeOut,
                   scoreList, moments, appVars>>

\* The return statement (lines 250-273)
FinalizeAll ==
    /\ pc = "loop"
    /\ facilitatorStats' = FinalizeStats(statsMap)
    /\ pc' = "returned"
    /\ UNCHANGED <<students, subjectList, settings, stats, processedStudents,
                   statsMap, pool, observed, gradeArgs, gradeOut,
                   scoreList, moments, appVars>>

NextFacilitator ==
    \/ \E sub \in pool.entries : AccumulateEntry(sub)
    \/ FinalizeAll

SpecFacilitator == InitFacilitator /\ [][NextFacilitator]_vars

Returned == pc = "returned"

(* C8: in every record calculateFacilitatorStats returns the nine           *)
(* gradeCounts add up to studentCount, studentCount is at least 1, and      *)
(* totalGradeValue is the sum over the nine bands of value times count.     *)
C8_CountsAddUp ==
    Returned =>
        \A r \in 1..Len(facilitatorStats) :
            LET stat == facilitatorStats[r]
            IN  /\ DOMAIN stat.gradeCounts = GradeSet
                /\ SumSeq([v \in 1..9 |-> stat.gradeCounts[Grades[v]]]) = stat.studentCount
                /\ stat.studentCount >= 1
                /\ SumSeq([v \in 1..9 |-> v * stat.gradeCounts[Grades[v]]])
                      = stat.totalGradeValue

\* Two records returned, one of them of several students in two bands
C8_Witness ==
    /\ Returned
    /\ Len(facilitatorStats) > 1
    /\ \E r \in 1..Len(facilitatorStats) :
          /\ facilitatorStats[r].studentCount > 1
          /\ facilitatorStats[r].gradeCounts["A1"] > 0
          /\ facilitatorStats[r].gradeCounts["F9"] > 0

(* C9: calculateFacilitatorStats returns exactly one record per distinct    *)
(* (facilitator, subject) pair fed to it, and a record counts exactly the   *)
(* computed subjects of its own facilitator and subject, whatever the       *)
(* names, names with "||" in them included.                                 *)
C9_OneRecordPerPair ==
    Returned =>
        /\ Len(facilitatorStats) = Cardinality(DOMAIN observed)
        /\ \A pair \in DOMAIN observed :
              \E r \in 1..Len(facilitatorStats) :
                  /\ facilitatorStats[r].facilitatorName = pair[1]
                  /\ facilitatorStats[r].subject = pair[2]
                  /\ facilitatorStats[r].studentCount = observed[pair]

\* The band of a percentage given in hundredths, by the thresholds
BandOf(hundredths) ==
    IF hundredths >= 8000 THEN "A1"
    ELSE IF hundredths >= 7000 THEN "B2"
    ELSE IF hundredths >= 6000 THEN "B3"
    ELSE IF hundredths >= 5000 THEN "C4"
    ELSE IF hundredths >= 4500 THEN "C5"
    ELSE IF hundredths >= 4000 THEN "C6"
    ELSE IF hundredths >= 3500 THEN "D7"
    ELSE IF hundredths >= 3000 THEN "E8"
    ELSE "F9"

(* C10: in every record returned performanceGrade is the band the           *)
(* thresholds (>= 80 A1, >= 70 B2, >= 60 B3, >= 50 C4, >= 45 C5, >= 40 C6,  *)
(* >= 35 D7, >= 30 E8, else F9) give for the performancePercentage the      *)
(* record reports.                                                          *)
C10_GradeOfReportedPercentage ==
    Returned =>
        \A r \in 1..Len(facilitatorStats) :
            facilitatorStats[r].performanceGrade
                = BandOf(facilitatorStats[r].performancePercentage)

(* C11: in every record returned performancePercentage is at most 100, is   *)
(* 100 only when every grade of the group is A1 (totalGradeValue equal to   *)
(* studentCount), and is not negative, every gradeValue being in 1..9.      *)
C11_PercentageRange ==
    Returned =>
        \A r \in 1..Len(facilitatorStats) :
            LET stat == facilitatorStats[r]
            IN  /\ stat.performancePercentage <= 10000
                /\ stat.performancePercentage = 10000
                      => stat.totalGradeValue = stat.studentCount
                /\ stat.performancePercentage >= 0

\* A group of several students all graded A1 next to a group all graded F9
C11_Witness ==
    /\ Returned
    /\ \E r, q \in 1..Len(facilitatorStats) :
          /\ facilitatorStats[r].studentCount > 1
          /\ facilitatorStats[r].totalGradeValue = facilitatorStats[r].studentCount
          /\ facilitatorStats[r].performancePercentage = 8889
          /\ facilitatorStats[q].totalGradeValue = 9 * facilitatorStats[q].studentCount
          /\ facilitatorStats[q].performancePercentage = 0

----------------------------------------------------------------------------
(* calculateMean and calculateStdDev on their own                           *)

\* Longest list of scores
MaxListLen == 4

\* Highest score in a list
MaxListScore == 4

ScoreLists ==
    UNION {[1..n -> 0..MaxListScore] : n \in 0..MaxListLen}

InitMoments ==
    /\ scoreList \in ScoreLists
    /\ moments = <<>>
    /\ pc = "call"
    /\ facilitatorStats = <<>>
    /\ PipelineIdle
    /\ LoopIdle
    /\ GradeIdle
    /\ AppIdle

\* const mean = calculateMean(scores); const stdDev = calculateStdDev(scores, mean)
CallMoments ==
    /\ pc = "call"
    /\ \E mean \in {calculateMean(scoreList)} :
          moments' = [mean |-> mean, stdDev |-> calculateStdDev(scoreList, mean)]
    /\ pc' = "called"
    /\ UNCHANGED <<students, subjectList, settings, stats, processedStudents,
                   facilitatorStats, statsMap, pool, observed, gradeArgs, gradeOut,
                   scoreList, appVars>>

NextMoments == CallMoments

SpecMoments == InitMoments /\ [][NextMoments]_vars

\* The value under the root is a quotient of a non-negative by a positive
\* number, so that its root is defined and not negative
NonNegative(stdDev) == stdDev.num >= 0 /\ stdDev.den > 0

(* C12: for a non-empty list of integer scores the standard deviation about *)
(* the mean is >= 0, and is 0 if and only if all the scores are equal; for  *)
(* the empty list the mean and the standard deviation are both 0.           *)
C12_Deviation ==
    (pc = "called" /\ moments # <<>>) =>
        /\ NonNegative(moments.stdDev)
        /\ Len(scoreList) > 0 =>
              (IsZero(moments.stdDev)
                  <=> \A i, j \in 1..Len(scoreList) : scoreList[i] = scoreList[j])
        /\ Len(scoreList) = 0 =>
              (moments.mean.num = 0 /\ IsZero(moments.stdDev))

\* Several equal scores other than 0 with deviation 0, the mean their value
C12_Witness ==
    /\ pc = "called"
    /\ moments # <<>>
    /\ Len(scoreList) > 2
    /\ \A i \in 1..Len(scoreList) : scoreList[i] = 3
    /\ IsZero(moments.stdDev)
    /\ moments.mean.num = 3 * moments.mean.den

----------------------------------------------------------------------------
(* Further claims on one run of the pipeline                                *)

\* The roster members whose subjects include the subject, by position
RosterMatches(subject) ==
    {i \in 1..Len(settings.staffList) : subject \in settings.staffList[i].subjects}

\* The subject has a facilitator-map entry that is not empty
IsMapped(subject) ==
    /\ subject \in DOMAIN settings.facilitatorMapping
    /\ settings.facilitatorMapping[subject] # ""

(* C13: the facilitator of every subject of every processed student is the  *)
(* name of the first roster member, in roster order, whose subjects include *)
(* the subject; without such a member it is the facilitator-map entry of    *)
(* the subject; with that entry missing or empty it is "TBA".               *)
C13_FacilitatorPriority ==
    Done =>
        \A k \in 1..Len(processedStudents) :
        \A i \in 1..Len(processedStudents[k].subjects) :
            LET sub == processedStudents[k].subjects[i]
                hits == RosterMatches(sub.subject)
            IN  /\ hits # {} =>
                      \E h \in hits :
                          /\ \A other \in hits : h <= other
                          /\ sub.facilitator = settings.staffList[h].name
                /\ (hits = {} /\ IsMapped(sub.subject)) =>
                      sub.facilitator = settings.facilitatorMapping[sub.subject]
                /\ (hits = {} /\ ~IsMapped(sub.subject)) =>
                      sub.facilitator = "TBA"

\* One student with a subject on two roster members and in the map, one
\* on a roster member and in the map, one only in the map, one with an
\* empty map entry and one with neither
C13_Witness ==
    /\ Done
    /\ \E k \in 1..Len(processedStudents) :
       \E a, b, c, d, e \in 1..Len(processedStudents[k].subjects) :
          LET subs == processedStudents[k].subjects
          IN  /\ subs[a].subject = "Computing"
              /\ Cardinality(RosterMatches("Computing")) = 2
              /\ subs[a].facilitator = "MADAM RUTH"
              /\ subs[b].subject = "Science"
              /\ IsMapped("Science")
              /\ subs[b].facilitator = "MADAM RUTH"
              /\ subs[c].subject = "Mathematics"
              /\ subs[c].facilitator = "SIR JOSHUA"
              /\ subs[d].subject = "French"
              /\ "French" \in DOMAIN settings.facilitatorMapping
              /\ subs[d].facilitator = "TBA"
              /\ subs[e].subject = "Career Technology"
              /\ "Career Technology" \notin DOMAIN settings.facilitatorMapping
              /\ subs[e].facilitator = "TBA"

----------------------------------------------------------------------------
(* One run of the pipeline on a cohort one student of which carries the     *)
(* optional remark fields                                                   *)

RemarkProfileIds == 1..9

\* The optional text fields of a student record, as entered
RemarkProfile(p) ==
    CASE p = 1 -> [finalRemark |-> "Promoted on trial."]
      [] p = 2 -> [finalRemark |-> "Promoted on trial.",
                   overallRemark |-> "A steady term.",
                   subjectRemarks |-> <<[sub |-> "Mathematics", text |-> "Works hard"]>>]
      [] p = 3 -> [finalRemark |-> "  "]
      [] p = 4 -> [finalRemark |-> "", overallRemark |-> "A steady term."]
      [] p = 5 -> [overallRemark |-> "", subjectRemarks |-> <<>>]
      [] p = 6 -> [subjectRemarks |-> <<[sub |-> "Mathematics", text |-> "  "],
                                        [sub |-> "French", text |-> ""]>>]
      [] p = 7 -> [subjectRemarks |-> <<[sub |-> "Mathematics", text |-> "Works hard"],
                                        [sub |-> "French", text |-> " "],
                                        [sub |-> "Science", text |-> "Careless"]>>]
      [] p = 8 -> [overallRemark |-> "A steady term.",
                   subjectRemarks |-> <<[sub |-> "French", text |-> "Participates"]>>]
      [] p = 9 -> EmptyMap

\* { ...a, ...b }
Merge(a, b) ==
    [k \in DOMAIN a \cup DOMAIN b |-> IF k \in DOMAIN b THEN b[k] ELSE a[k]]

\* The long list is run with one column for its plain core subjects and one
\* for its electives
ColumnChoices(list) ==
    IF Len(list) <= ShortLen THEN [Names(list) \ {"Science"} -> MainColumns]
    ELSE {[s \in Names(list) \ {"Science"} |-> IF s \in CORE_SUBJECTS THEN c ELSE e] :
            c \in MainColumns, e \in MainColumns}

\* The subject lists of the runs, with a list of four core subjects and
\* two electives
RemarkLists ==
    SubjectLists \cup
        {<<"English Language", "Mathematics", "Science", "Social Studies",
           "Computing", "French">>}

InitRemarks ==
    \E list \in RemarkLists, p \in RemarkProfileIds, who \in 1..MaxStudents :
    \E cols \in ColumnChoices(list) :
    \E sci \in (IF "Science" \in Names(list) THEN ScienceColumns ELSE {"none"}) :
        /\ students = [i \in 1..MaxStudents |->
                          IF i = who
                          THEN Merge(InputStudent(i, list, cols, sci), RemarkProfile(p))
                          ELSE InputStudent(i, list, cols, sci)]
        /\ subjectList = list
        /\ settings = InputSettings(100)
        /\ stats = NoStats
        /\ processedStudents = <<>>
        /\ facilitatorStats = <<>>
        /\ pc = "run"
        /\ LoopIdle
        /\ GradeIdle
        /\ MomentsIdle
        /\ AppIdle

SpecRemarks == InitRemarks /\ [][Next]_vars

\* The subjects of a processed student with gradeValue >= 7, in list order
WeakNames(p) ==
    LET weak == SelectSeq(p.subjects, IsWeak)
    IN  [i \in 1..Len(weak) |-> weak[i].subject]

\* The weakness note over those subjects
NoteOn(names) == "Needs urgent improvement in: " \o Join(names, ", ") \o "."

\* What may stand between a base text and a note appended to it
NoteSeparators == {"", " ", "\n", "\n\n"}

(* C14: for a student whose finalRemark is not blank, overallRemark is the  *)
(* finalRemark with the weakness note "Needs urgent improvement in:         *)
(* <names>." appended when some subject has gradeValue >= 7, the note       *)
(* listing exactly those subjects; with no such subject the note is empty,  *)
(* overallRemark is the finalRemark and there is no "Lowest performance"    *)
(* text.                                                                    *)
C14_FinalRemarkWithNote ==
    Done =>
        \A k \in 1..Len(processedStudents) :
            LET p == processedStudents[k]
                input == InputOf(p)
            IN  HasText(input, "finalRemark") =>
                    IF Len(WeakNames(p)) > 0
                    THEN p.overallRemark \in
                            {input.finalRemark \o sep \o NoteOn(WeakNames(p)) :
                                sep \in NoteSeparators}
                    ELSE /\ p.overallRemark = input.finalRemark
                         /\ p.weaknessAnalysis = ""

\* The position of the first subject, in list order, with the lowest score
FirstLowest(p) ==
    CHOOSE i \in 1..Len(p.subjects) :
        \A j \in 1..Len(p.subjects) :
            \/ p.subjects[i].score < p.subjects[j].score
            \/ (p.subjects[i].score = p.subjects[j].score /\ i <= j)

ExpectedWeaknessNote(p) ==
    IF Len(WeakNames(p)) > 0 THEN NoteOn(WeakNames(p))
    ELSE IF Len(p.subjects) = 0 THEN "Lowest performance in N/A."
    ELSE "Lowest performance in " \o p.subjects[FirstLowest(p)].subject \o "."

\* The per-subject notes of a student that are not blank, as "<subject>: <text>"
NotesOf(input) ==
    LET entries == IF "subjectRemarks" \in DOMAIN input THEN input.subjectRemarks ELSE <<>>
        kept == {i \in 1..Len(entries) : ~IsBlank(entries[i].text)}
        nth(n) == CHOOSE i \in kept : Cardinality({j \in kept : j < i}) = n - 1
    IN  [n \in 1..Cardinality(kept) |-> entries[nth(n)].sub \o ": " \o entries[nth(n)].text]

ExpectedNotesSuffix(input) ==
    IF Len(NotesOf(input)) = 0 THEN ""
    ELSE " [Facilitator Notes: " \o Join(NotesOf(input), "; ") \o "]"

HasManualSummary(input) ==
    "overallRemark" \in DOMAIN input /\ input.overallRemark # ""

ExpectedTeacherSummary(p, input) ==
    IF HasManualSummary(input) THEN input.overallRemark
    ELSE IF p.bestSixAggregate <= 15
    THEN "Overall performance is " \o p.category \o ". Keep up the excellent work!"
    ELSE "Overall performance is " \o p.category
            \o ". More effort required to improve aggregate."

(* C15: for a student with no or a blank finalRemark, overallRemark is      *)
(* weaknessNote + facilitatorNotesSuffix + "\n\n" + teacherSummary: the     *)
(* note lists exactly the subjects with gradeValue >= 7 or, without any,    *)
(* names the first subject in list order with the lowest score; the suffix  *)
(* is omitted when no per-subject note is non-blank; the summary is the     *)
(* manual overallRemark when present, otherwise "Overall performance is     *)
(* <category>." with the encouraging sentence iff bestSixAggregate <= 15    *)
(* and "More effort required to improve aggregate." otherwise.              *)
C15_GeneratedRemark ==
    Done =>
        \A k \in 1..Len(processedStudents) :
            LET p == processedStudents[k]
                input == InputOf(p)
            IN  ~HasText(input, "finalRemark") =>
                    /\ p.weaknessAnalysis = ExpectedWeaknessNote(p)
                    /\ p.overallRemark =
                          ExpectedWeaknessNote(p) \o ExpectedNotesSuffix(input)
                              \o "\n\n" \o ExpectedTeacherSummary(p, input)

\* A student with facilitator notes and no manual summary, category Pass
\* at aggregate 25, beside a student without a weak subject whose note
\* names the lowest one
C15_Witness ==
    /\ Done
    /\ \E k, m \in 1..Len(processedStudents) :
          LET p == processedStudents[k]
              q == processedStudents[m]
          IN  /\ p.bestSixAggregate = 25
              /\ p.category = "Pass"
              /\ ~HasManualSummary(InputOf(p))
              /\ Len(NotesOf(InputOf(p))) = 2
              /\ p.overallRemark =
                    "Needs urgent improvement in: Computing, French."
                       \o " [Facilitator Notes: Mathematics: Works hard; Science: Careless]"
                       \o "\n\nOverall performance is Pass. "
                       \o "More effort required to improve aggregate."
              /\ Len(WeakNames(q)) = 0
              /\ q.overallRemark =
                    "Lowest performance in Computing.\n\nOverall performance is "
                       \o "Pass. More effort required to improve aggregate."

----------------------------------------------------------------------------
(* Further claims on the runs of Spec                                       *)

\* The position of a processed student in the input cohort
InputIndex(p) == CHOOSE k \in 1..Len(students) : students[k].id = p.id

TiedRank(p, q) ==
    p.bestSixAggregate = q.bestSixAggregate /\ p.totalScore = q.totalScore

(* C16: two students equal in bestSixAggregate and in totalScore get        *)
(* distinct ranks, stand next to each other or with only students tied      *)
(* with them in between, and keep the relative order they have in the       *)
(* input cohort.                                                            *)
C16_StableRanking ==
    Done =>
        \A k, m \in 1..Len(processedStudents) :
            (k < m /\ TiedRank(processedStudents[k], processedStudents[m])) =>
                /\ processedStudents[k].rank < processedStudents[m].rank
                /\ InputIndex(processedStudents[k]) < InputIndex(processedStudents[m])
                /\ \A between \in k..m :
                      TiedRank(processedStudents[k], processedStudents[between])

\* The second and third student of the cohort tied ahead of the first, on
\* a list of several subjects
C16_Witness ==
    /\ Done
    /\ Len(subjectList) > 1
    /\ Len(processedStudents) = 3
    /\ processedStudents[1].id = 2
    /\ processedStudents[2].id = 3
    /\ processedStudents[3].id = 1
    /\ TiedRank(processedStudents[1], processedStudents[2])
    /\ ~TiedRank(processedStudents[2], processedStudents[3])
    /\ processedStudents[1].totalScore > 0
    /\ processedStudents[1].rank = 1
    /\ processedStudents[2].rank = 2

\* One step of the pipeline: the subjects of every student follow the
\* subject list, the total is the sum of their scores, and the cohort, the
\* subject list and the statistics are those the step was given
C18_Step ==
    pc' = "done" =>
        /\ students' = students
        /\ subjectList' = subjectList
        /\ stats' = calculateClassStatistics(students, subjectList,
                                             settings.scienceBaseScore)
        /\ \A k \in 1..Len(processedStudents') :
              LET p == processedStudents'[k]
              IN  /\ Len(p.subjects) = Len(subjectList)
                  /\ \A i \in 1..Len(subjectList) :
                        p.subjects[i].subject = subjectList[i]
                  /\ p.totalScore =
                        SumSeq([i \in 1..Len(p.subjects) |-> p.subjects[i].score])

(* C18: processStudentData returns for each student one ComputedSubject     *)
(* per entry of the subject list, in the order of the list whatever the     *)
(* best-six sorting does, with totalScore the sum of their scores, and      *)
(* leaves the student records and the statistics it was given as they were. *)
C18_SubjectsFollowList == [][C18_Step]_vars

\* A student whose first core subject has a worse grade than a later one,
\* so that the best-six sort moves it, and a list naming Science twice
C18_Witness ==
    /\ Done
    /\ Len(subjectList) > ShortLen
    /\ \E k \in 1..Len(processedStudents) :
          LET p == processedStudents[k]
          IN  /\ p.subjects[1].gradeValue > p.subjects[2].gradeValue
              /\ p.bestCoreSubjects[1].subject # p.subjects[1].subject
              /\ p.subjects[3].subject = "Science"
              /\ p.subjects[Len(subjectList)].subject = "Science"
              /\ p.totalScore > 0

\* Entries of the subject list that are core subjects
CoreEntries(list) == Cardinality({i \in 1..Len(list) : list[i] \in CORE_SUBJECTS})

\* Subjects the aggregate of a student is summed over
AggregateSize(list) ==
    Min(4, CoreEntries(list)) + Min(2, Len(list) - CoreEntries(list))

(* C19: with k = min(4, core subjects in the list) + min(2, elective        *)
(* subjects in the list), bestSixAggregate of every processed student lies  *)
(* between k and 9k; an empty list gives aggregate 0 and Distinction, and   *)
(* Fail occurs only when k >= 5.                                            *)
C19_AggregateRange ==
    Done =>
        \A i \in 1..Len(processedStudents) :
            LET p == processedStudents[i]
                k == AggregateSize(subjectList)
            IN  /\ k <= p.bestSixAggregate
                /\ p.bestSixAggregate <= 9 * k
                /\ p.bestSixAggregate <= 54
                /\ Len(subjectList) = 0 =>
                      (p.bestSixAggregate = 0 /\ p.category = "Distinction")
                /\ p.category = "Fail" => k >= 5

\* A student who fails on a list of six counted subjects, beside one who
\* does not
C19_Witness ==
    /\ Done
    /\ AggregateSize(subjectList) = 6
    /\ \E i, j \in 1..Len(processedStudents) :
          /\ processedStudents[i].category = "Fail"
          /\ processedStudents[j].category # "Fail"

----------------------------------------------------------------------------
(* src/App.tsx and src/components/ScoreEntry.tsx: the state of the          *)
(* application, its handlers and the two memos                              *)

\* Handlers run in one behaviour
MaxEdits == 3

\* Three of DEPARTMENTS: the one of the junior high school, one other of
\* the basic school and one of early childhood
Departments == {"Junior High School", "Upper Basic School", "Kindergarten"}

\* isEarlyChildhood (App.tsx line 114, ScoreEntry.tsx line 33)
IsEarlyChildhood(dept) == dept \in {"Daycare", "Nursery", "Kindergarten"}

\* getSubjectsForDepartment of constants.ts
getSubjectsForDepartment(dept) ==
    CASE dept = "Junior High School" -> <<"Science", "Mathematics">>
      [] dept = "Upper Basic School" -> <<"Mathematics", "Science">>
      [] OTHER -> <<"Numeracy">>

\* The callback of the currentSubjectList memo (App.tsx lines 150-154)
CurrentSubjectList(dept, sett) ==
    getSubjectsForDepartment(dept) \o sett.customSubjects
        \o (IF IsEarlyChildhood(dept) THEN sett.activeIndicators ELSE <<>>)

\* Its dependency array (line 155)
ListDeps(dept, sett) ==
    <<dept, IsEarlyChildhood(dept), sett.activeIndicators, sett.customSubjects>>

\* The dependency array without settings.scienceBaseScore
PipelineDeps_WithoutBase(studs, list, sett) ==
    <<studs, sett.facilitatorMapping, list, sett.gradingSystemRemarks, sett.staffList>>

\* The dependency array of the pipeline memo (line 163).  React compares
\* the entries by identity; every handler builds new objects for what it
\* changes, so that a changed value is a changed identity.
PipelineDeps(studs, list, sett) ==
    <<studs, sett.facilitatorMapping, list, sett.gradingSystemRemarks, sett.staffList,
      sett.scienceBaseScore>>

\* DEFAULT_SETTINGS as far as the memos and ScoreEntry read it
AppSettings ==
    Merge(InputSettings(100), [customSubjects |-> <<>>, activeIndicators |-> <<"Sharing">>])

\* The cohort loaded by fetchData, without breakdowns (line 103)
AppCohort ==
    [i \in 1..2 |->
        [id |-> i,
         scores |-> [s \in {"Mathematics", "Science"} |->
                        IF s = "Mathematics" THEN 40 * i ELSE 50 + 10 * i],
         scoreDetails |-> EmptyMap]]

\* One render of App and ScoreEntry on the state (dept, studs, sett,
\* selected): each memo recomputes when its dependencies differ from those
\* of its last computation and otherwise hands out what it kept; the effect
\* of ScoreEntry (lines 24-28) moves the selection into the list.
Render(dept, studs, sett, selected) ==
    \E list \in {IF ListDeps(dept, sett) = memoDeps.list THEN subjectList
                 ELSE CurrentSubjectList(dept, sett)} :
    \E deps \in {PipelineDeps(studs, list, sett)} :
        /\ subjectList' = list
        /\ memoDeps' = [list |-> ListDeps(dept, sett), pipeline |-> deps]
        /\ IF deps = memoDeps.pipeline
           THEN UNCHANGED <<stats, processedStudents, facilitatorStats>>
           ELSE \E s \in {calculateClassStatistics(studs, list, sett.scienceBaseScore)} :
                \E processed \in {processStudentData(s, studs, sett.facilitatorMapping,
                                                     list, sett.gradingSystemRemarks,
                                                     sett.staffList, sett.scienceBaseScore)} :
                    /\ stats' = s
                    /\ processedStudents' = processed
                    /\ facilitatorStats' = calculateFacilitatorStats(processed)
        /\ selectedSubject' =
              IF selected \notin Names(list) /\ Len(list) > 0 THEN list[1] ELSE selected

\* The application after the first load and render
InitApp ==
    /\ activeDept = "Junior High School"
    /\ students = AppCohort
    /\ settings = AppSettings
    /\ subjectList = CurrentSubjectList("Junior High School", AppSettings)
    /\ \E s \in {calculateClassStatistics(AppCohort, subjectList, 100)} :
       \E processed \in {processStudentData(s, AppCohort, AppSettings.facilitatorMapping,
                                            subjectList, AppSettings.gradingSystemRemarks,
                                            AppSettings.staffList, 100)} :
           /\ stats = s
           /\ processedStudents = processed
           /\ facilitatorStats = calculateFacilitatorStats(processed)
    /\ memoDeps = [list |-> ListDeps("Junior High School", AppSettings),
                   pipeline |-> PipelineDeps(AppCohort, subjectList, AppSettings)]
    /\ selectedSubject = subjectList[1]
    /\ editCount = 0
    /\ pc = "rendered"
    /\ LoopIdle
    /\ GradeIdle
    /\ MomentsIdle

\* What no handler of the application touches
AppFrame ==
    /\ editCount' = editCount + 1
    /\ UNCHANGED <<pc, statsMap, pool, observed, gradeArgs, gradeOut, scoreList, moments>>

\* setActiveDept(dept) (App.tsx line 179) and the render after it
SetActiveDept(dept) ==
    /\ editCount < MaxEdits
    /\ activeDept' = dept
    /\ Render(dept, students, settings, selectedSubject)
    /\ UNCHANGED <<students, settings>>
    /\ AppFrame

\* handleSettingChange (App.tsx lines 128-130) and the render after it
HandleSettingChange(key, value) ==
    /\ editCount < MaxEdits
    /\ \E sett \in {[settings EXCEPT ![key] = value]} :
          /\ settings' = sett
          /\ Render(activeDept, students, sett, selectedSubject)
    /\ UNCHANGED <<students, activeDept>>
    /\ AppFrame

\* handleStudentUpdate (App.tsx lines 146-148) and the render after it
HandleStudentUpdate(id, field, value) ==
    /\ editCount < MaxEdits
    /\ \E studs \in {[k \in 1..Len(students) |->
                        IF students[k].id = id
                        THEN Merge(students[k], [f \in {field} |-> value])
                        ELSE students[k]]} :
          /\ students' = studs
          /\ Render(activeDept, studs, settings, selectedSubject)
    /\ UNCHANGED <<settings, activeDept>>
    /\ AppFrame

\* The texts typed into a score field
ScoreTexts == {"", "30", "50"}

\* parseFloat(value), NaN replaced by 0 (ScoreEntry.tsx lines 36-37)
ParseScore(text) ==
    CASE text = "30" -> 30
      [] text = "50" -> 50
      [] OTHER -> 0

\* The record handleScoreChange puts in place of the student (lines 39-69)
ScoreChanged(student, field, numValue) ==
    IF IsEarlyChildhood(activeDept)
    THEN LET score == Min(100, IF numValue < 0 THEN 0 ELSE numValue)
         IN  [student EXCEPT
                !.scores = Merge(@, [s \in {selectedSubject} |-> score]),
                !.scoreDetails =
                    Merge(@, [s \in {selectedSubject} |->
                                [sectionA |-> 0, sectionB |-> score, total |-> score]])]
    ELSE LET currentDetails ==
                 IF selectedSubject \in DOMAIN student.scoreDetails
                 THEN student.scoreDetails[selectedSubject]
                 ELSE [sectionA |-> 0, sectionB |-> 0, total |-> 0]
             edited == [currentDetails EXCEPT ![field] = numValue]
             rawSum == edited.sectionA + edited.sectionB
             newDetails ==
                 [edited EXCEPT !.total =
                     IF /\ selectedSubject = "Science"
                        /\ activeDept = "Junior High School"
                        /\ settings.scienceBaseScore = 140
                     THEN Normalize140(rawSum)
                     ELSE rawSum]
         IN  [student EXCEPT
                !.scores = Merge(@, [s \in {selectedSubject} |-> newDetails.total]),
                !.scoreDetails = Merge(@, [s \in {selectedSubject} |-> newDetails])]

\* handleScoreChange (ScoreEntry.tsx lines 35-71) and the render after it
HandleScoreChange(id, field, text) ==
    /\ editCount < MaxEdits
    /\ selectedSubject \in Names(subjectList)
    /\ \E studs \in {[k \in 1..Len(students) |->
                        IF students[k].id = id
                        THEN ScoreChanged(students[k], field, ParseScore(text))
                        ELSE students[k]]} :
          /\ students' = studs
          /\ Render(activeDept, studs, settings, selectedSubject)
    /\ UNCHANGED <<settings, activeDept>>
    /\ AppFrame

\* setSelectedSubject (ScoreEntry.tsx line 112): ScoreEntry alone renders
SetSelectedSubject(subject) ==
    /\ editCount < MaxEdits
    /\ subject \in Names(subjectList)
    /\ selectedSubject' = subject
    /\ UNCHANGED <<students, settings, activeDept, subjectList, memoDeps,
                   stats, processedStudents, facilitatorStats>>
    /\ AppFrame

NextApp ==
    \/ \E dept \in Departments : SetActiveDept(dept)
    \/ \E base \in {100, 140} : HandleSettingChange("scienceBaseScore", base)
    \/ \E map \in {FacilitatorMapping, [s \in {"Science"} |-> "SIR ISAAC"]} :
          HandleSettingChange("facilitatorMapping", map)
    \/ \E roster \in {StaffList, <<>>} : HandleSettingChange("staffList", roster)
    \/ \E remarks \in {[g \in {"C4"} |-> "Credit"], [g \in {"C4"} |-> "Average"]} :
          HandleSettingChange("gradingSystemRemarks", remarks)
    \/ \E custom \in {<<>>, <<"Science">>, <<"French">>} :
          HandleSettingChange("customSubjects", custom)
    \/ \E indicators \in {<<"Sharing">>, <<"Counting">>} :
          HandleSettingChange("activeIndicators", indicators)
    \/ HandleStudentUpdate(1, "finalRemark", "Promoted on trial.")
    \/ \E field \in {"sectionA", "sectionB"}, text \in ScoreTexts :
          HandleScoreChange(1, field, text)
    \/ \E subject \in Names(subjectList) : SetSelectedSubject(subject)

SpecApp == InitApp /\ [][NextApp]_vars

(* C17: after any sequence of student edits, changes of the subject list    *)
(* and changes of the settings, the subject list, stats, processedStudents  *)
(* and facilitatorStats handed to the views are those of one run of the     *)
(* pipeline on the current students, subject list and settings: none is     *)
(* left from an earlier state.                                              *)
C17_SameSnapshot ==
    pc = "rendered" =>
        /\ subjectList = CurrentSubjectList(activeDept, settings)
        /\ \A s \in {calculateClassStatistics(students, subjectList,
                                              settings.scienceBaseScore)} :
              /\ stats = s
              /\ processedStudents =
                    processStudentData(s, students, settings.facilitatorMapping,
                                       subjectList, settings.gradingSystemRemarks,
                                       settings.staffList, settings.scienceBaseScore)
        /\ facilitatorStats = calculateFacilitatorStats(processedStudents)

\* A Science mark typed in, the base switched to 140 and the department
\* changed: the views get the subject list of the new department and the
\* mark scaled to 100
C17_Witness ==
    /\ pc = "rendered"
    /\ editCount = 3
    /\ activeDept = "Upper Basic School"
    /\ settings.scienceBaseScore = 140
    /\ "Science" \in DOMAIN students[1].scoreDetails
    /\ students[1].scoreDetails["Science"].sectionB = 50
    /\ subjectList = <<"Mathematics", "Science">>
    /\ \E k \in 1..Len(processedStudents) :
          /\ processedStudents[k].id = 1
          /\ processedStudents[k].subjects[2].score = 36
    /\ "Science" \in DOMAIN stats.subjectMeans
    /\ stats.subjectMeans["Science"].num = 36 + 70

\* The Science score the pipeline derives for a processed student
DerivedScience(p) ==
    LET i == CHOOSE i \in 1..Len(p.subjects) : p.subjects[i].subject = "Science"
    IN  p.subjects[i].score

(* C20: after any sequence of handleScoreChange edits and scienceBaseScore  *)
(* toggles, in every department, the flat score handleScoreChange stored    *)
(* in scores["Science"] and in scoreDetails.Science.total is the Science    *)
(* score processStudentData derives for the student under the base          *)
(* selected now.                                                            *)
C20_FlatIsDerived ==
    pc = "rendered" =>
        \A k \in 1..Len(processedStudents) :
            LET p == processedStudents[k]
                input == InputOf(p)
            IN  ("Science" \in Names(subjectList)
                    /\ "Science" \in DOMAIN input.scoreDetails) =>
                    /\ input.scores["Science"] = DerivedScience(p)
                    /\ input.scoreDetails["Science"].total = DerivedScience(p)

====
